---- MODULE Spec2Model ----
(***************************************************************************)
(* Model of backend_api.py (Truck Tracker API): the status classifier,     *)
(* the latest-position query, the HTTP endpoints and the /ws push loop.    *)
(*                                                                         *)
(* Encoding of Python values:                                              *)
(*   a str is a sequence of one-character strings (<<>> is "");            *)
(*   a date string is <<>> ("") or <<d>>, the ISO date of day number d;    *)
(*   an Optional[str] is None (= <<>>) or Str(s) (= <<s>>).                *)
(*                                                                         *)
(* The handlers are modelled as called with their parameters; how a        *)
(* request is routed to them (app.mount, CORS) is outside the model.       *)
(***************************************************************************)
EXTENDS Integers, Sequences, FiniteSets, TLC

VARIABLES
    db,             \* rows of public.tracking_data2
    now,            \* int(time.time()) as the process would read it
    timestamp,      \* argument of the determine_status call under test
    status,         \* its return value ("" before the first call)
    request,        \* the HTTP request being served
    response,       \* the HTTP response returned for it
    api_log,        \* lines printed while serving it
    pc,             \* per websocket: position of websocket_endpoint
    car_filter,     \* per websocket: local car_filter
    date_from,      \* per websocket: local date_from
    date_to,        \* per websocket: local date_to
    data,           \* per websocket: local data of the current cycle
    features,       \* per websocket: local features of the current cycle
    status_counts,  \* per websocket: local status_counts of the current cycle
    inbox,          \* per websocket: client messages buffered for receive_json
    sent,           \* per websocket: the message last handed to send_json
    connected,      \* per websocket: the client still holds the connection
    log,            \* per websocket: lines printed in the current cycle
    fresh,          \* history: features was assigned in the current cycle
    read_filter,    \* history: the arguments of the last get_truck_locations
    read_table,     \* history: the table that call read
    expected        \* history: the connect parameters merged with the
                    \* updates this websocket has taken

vars == <<db, now, timestamp, status, request, response, api_log, pc,
          car_filter, date_from, date_to, data, features, status_counts,
          inbox, sent, connected, log, fresh, read_filter, read_table,
          expected>>

classifyVars == <<timestamp, status>>
apiVars == <<request, response, api_log>>
histVars == <<fresh, read_filter, read_table, expected>>
wsVars == <<pc, car_filter, date_from, date_to, data, features,
            status_counts, inbox, sent, connected, log, histVars>>

-----------------------------------------------------------------------------
(* Bounds of the model *)

MaxLen == 3          \* longest car parameter string explored
MaxRecords == 3      \* most rows in tracking_data2
MaxDate == 2         \* dates are day numbers 1..MaxDate
MaxTick == 1         \* seconds the clock may advance during a run
MaxFuture == 2       \* how far in the future a timestamp may lie

-----------------------------------------------------------------------------
(* Python values *)

None == <<>>
Str(s) == <<s>>

\* Python truthiness of an Optional[str]: None and "" are falsy.
Truthy(x) == x # None /\ x[1] # <<>>

Alphabet == {"A", "B", " ", ","}
Whitespace == {" "}

\* Code points of the characters, for comparing strings.
Ord(ch) == CASE ch = " " -> 32 [] ch = "," -> 44 [] ch = "A" -> 65 [] ch = "B" -> 66

Min(a, b) == IF a < b THEN a ELSE b

\* a < b for two strings, as ORDER BY car compares them.
StrLess(a, b) ==
    \E i \in 1..(Min(Len(a), Len(b)) + 1) :
        /\ \A j \in 1..(i - 1) : a[j] = b[j]
        /\ \/ i > Len(a) /\ i <= Len(b)
           \/ i <= Len(a) /\ i <= Len(b) /\ Ord(a[i]) < Ord(b[i])

\* sep in s
Contains(s, sep) == \E i \in 1..Len(s) : s[i] = sep

\* s.split(sep): the pieces between the separators, empty pieces included.
RECURSIVE Split(_, _)
Split(s, sep) ==
    IF ~Contains(s, sep) THEN <<s>>
    ELSE LET i == CHOOSE k \in 1..Len(s) :
                      s[k] = sep /\ \A j \in 1..(k - 1) : s[j] # sep
         IN  <<SubSeq(s, 1, i - 1)>> \o Split(SubSeq(s, i + 1, Len(s)), sep)

RECURSIVE LStrip(_)
LStrip(s) ==
    IF s # <<>> /\ Head(s) \in Whitespace THEN LStrip(Tail(s)) ELSE s

RECURSIVE RStrip(_)
RStrip(s) ==
    IF s # <<>> /\ s[Len(s)] \in Whitespace
    THEN RStrip(SubSeq(s, 1, Len(s) - 1)) ELSE s

\* s.strip()
Strip(s) == RStrip(LStrip(s))

\* [f(x) for x in xs if keep(x)] with f = strip, keep = strip() non-empty
RECURSIVE StripNonEmpty(_)
StripNonEmpty(xs) ==
    IF xs = <<>> THEN <<>>
    ELSE IF Strip(Head(xs)) # <<>>
         THEN <<Strip(Head(xs))>> \o StripNonEmpty(Tail(xs))
         ELSE StripNonEmpty(Tail(xs))

-----------------------------------------------------------------------------
(* Status classifier *)

STALE_THRESHOLD_HOURS == 1
\* 0.5, as the fraction IDLE_THRESHOLD_NUM / IDLE_THRESHOLD_DEN
IDLE_THRESHOLD_NUM == 1
IDLE_THRESHOLD_DEN == 2
SECONDS_PER_HOUR == 3600

\* (current_time - timestamp) / 3600 > num / den, on exact fractions
HoursGreater(current_time, ts, num, den) ==
    (current_time - ts) * den > num * SECONDS_PER_HOUR

\* the mutants: a comparison that includes the threshold itself
determine_status_StaleInclusive(ts, current_time) ==
    IF (current_time - ts) >= STALE_THRESHOLD_HOURS * SECONDS_PER_HOUR
    THEN "stopped"
    ELSE IF HoursGreater(current_time, ts, IDLE_THRESHOLD_NUM, IDLE_THRESHOLD_DEN)
         THEN "idle"
         ELSE "moving"

determine_status_IdleInclusive(ts, current_time) ==
    IF HoursGreater(current_time, ts, STALE_THRESHOLD_HOURS, 1)
    THEN "stopped"
    ELSE IF (current_time - ts) * IDLE_THRESHOLD_DEN
              >= IDLE_THRESHOLD_NUM * SECONDS_PER_HOUR
         THEN "idle"
         ELSE "moving"

\* determine_status(timestamp), with the clock value it reads made explicit
determine_status(ts, current_time) ==
    IF HoursGreater(current_time, ts, STALE_THRESHOLD_HOURS, 1)
    THEN "stopped"
    ELSE IF HoursGreater(current_time, ts, IDLE_THRESHOLD_NUM, IDLE_THRESHOLD_DEN)
         THEN "idle"
         ELSE "moving"

\* The clock starts three hours after the epoch of the model.
ClockStart == 3 * SECONDS_PER_HOUR
Clock == ClockStart..(ClockStart + MaxTick)

-----------------------------------------------------------------------------
(* public.tracking_data2 and the queries on it *)

Cars == {<<"A">>, <<"B">>}
Dates == 1..MaxDate
\* One position well past the stale threshold, one exactly on the idle
\* threshold when the clock reads ClockStart.
Timestamps == {ClockStart - 5000, ClockStart - 1800}
Latitude(car) == IF car = <<"A">> THEN 31 ELSE 33
Longitude(car) == IF car = <<"A">> THEN 74 ELSE 73

Rows ==
    {[car |-> c, latitude |-> Latitude(c), longitude |-> Longitude(c),
      timestamp |-> t, date |-> d] : c \in Cars, t \in Timestamps, d \in Dates}

Tables == {T \in SUBSET Rows : Cardinality(T) <= MaxRecords}

\* The sequences that list every element of S once.
Orderings(S) ==
    {f \in [1..Cardinality(S) -> S] : \A i, j \in 1..Cardinality(S) :
                                          i # j => f[i] # f[j]}

\* The WHERE clause get_truck_locations builds: the car condition, with its
\* parameters, and the parameters of the two date conditions (<<>> = absent).
LocationsQuery(cf, df, dt) ==
    [car_op |-> IF ~Truthy(cf) THEN "none"
                ELSE IF Contains(cf[1], ",")
                     THEN IF StripNonEmpty(Split(cf[1], ",")) # <<>>
                          THEN "IN" ELSE "none"
                     ELSE "=",
     car_params |-> IF ~Truthy(cf) THEN <<>>
                    ELSE IF Contains(cf[1], ",")
                         THEN StripNonEmpty(Split(cf[1], ","))
                         ELSE <<cf[1]>>,
     date_ge |-> IF Truthy(df) THEN <<df[1]>> ELSE <<>>,
     date_le |-> IF Truthy(dt) THEN <<dt[1]>> ELSE <<>>]

\* A date parameter <<d>> compared with a date column.
DateOf(param) == param[1][1]

\* Whether a row satisfies the WHERE clause q.
Where(row, q) ==
    /\ CASE q.car_op = "none" -> TRUE
         [] q.car_op = "=" -> row.car = q.car_params[1]
         [] q.car_op = "IN" ->
                \E i \in 1..Len(q.car_params) : row.car = q.car_params[i]
    /\ q.date_ge # <<>> => row.date >= DateOf(q.date_ge)
    /\ q.date_le # <<>> => row.date <= DateOf(q.date_le)

\* ORDER BY car: the cars of a set of rows, ascending.
SortedCars(rows) ==
    LET cs == {r.car : r \in rows}
    IN  CHOOSE f \in Orderings(cs) :
            \A i, j \in 1..Cardinality(cs) : i < j => StrLess(f[i], f[j])

\* The mutant: ORDER BY car, "timestamp" ASC keeps each car's oldest row.
LatestRecords_Oldest(table, q) ==
    LET hits == {r \in table : Where(r, q)}
        cs == SortedCars(hits)
        first(c) == {r \in hits : /\ r.car = c
                                  /\ \A o \in hits :
                                        o.car = c => o.timestamp >= r.timestamp}
    IN  {f \in [1..Len(cs) -> hits] : \A i \in 1..Len(cs) : f[i] \in first(cs[i])}

\* SELECT DISTINCT ON (car) ... WHERE q ORDER BY car, "timestamp" DESC:
\* every result the database may return. Per car it keeps the first row in
\* that order; rows of one car with equal timestamps may come in any order.
LatestRecords(table, q) ==
    LET hits == {r \in table : Where(r, q)}
        cs == SortedCars(hits)
        first(c) == {r \in hits : /\ r.car = c
                                  /\ \A o \in hits :
                                        o.car = c => o.timestamp <= r.timestamp}
    IN  {f \in [1..Len(cs) -> hits] : \A i \in 1..Len(cs) : f[i] \in first(cs[i])}

\* SELECT DISTINCT car FROM public.tracking_data2, in any order.
DistinctCars(table) == Orderings({r.car : r \in table})

\* SELECT * ... WHERE car = car_id [AND date >= ..] [AND date <= ..]
\* ORDER BY "timestamp" DESC: every result the database may return.
HistoryRecords(table, car_id, df, dt) ==
    LET hits == {r \in table : /\ r.car = car_id
                               /\ Truthy(df) => r.date >= DateOf(df)
                               /\ Truthy(dt) => r.date <= DateOf(dt)}
    IN  {f \in Orderings(hits) :
            \A i, j \in 1..Cardinality(hits) :
                i < j => f[i].timestamp >= f[j].timestamp}

-----------------------------------------------------------------------------
(* get_truck_locations *)

\* datetime.fromtimestamp(ts).strftime('%Y-%m-%d %H:%M:%S') on a UTC server,
\* the date part kept as the day number since the epoch.
FormatTimestamp(ts) ==
    <<ts \div 86400, (ts % 86400) \div 3600, (ts % 3600) \div 60, ts % 60>>

\* The feature built from one row, determine_status reading the clock at t.
Feature(row, t) ==
    [type |-> "Feature",
     geometry |-> [type |-> "Point",
                   coordinates |-> <<row.longitude, row.latitude>>],
     properties |-> [id |-> row.car,
                     status |-> determine_status(row.timestamp, t),
                     timestamp |-> row.timestamp,
                     date |-> <<row.date>>,
                     last_update |-> FormatTimestamp(row.timestamp)]]

\* The clock values n successive determine_status calls may read from time
\* t on: time does not run backwards and stays within the model's horizon.
ClockReadings(n, t) ==
    {c \in [1..n -> t..(ClockStart + MaxTick)] :
        \A i \in 1..n : i > 1 => c[i - 1] <= c[i]}

\* The causes of a repository failure: get_db_connection raises, or
\* cur.execute / cur.fetchall raises.
RepositoryErrors == {"connect", "query"}

\* What get_db_connection prints and raises when connect fails.
ConnectionErrorLog == <<"Error connecting to database">>
ConnectionErrorDetail == <<"500", "Database connection error">>

\* str(e) of the exception the handler's except clause catches
ErrorText(e) == IF e = "connect" THEN ConnectionErrorDetail ELSE <<e>>
ErrorLog(e) == IF e = "connect" THEN ConnectionErrorLog ELSE <<>>

\* The mutant: the except clause re-raises instead of returning [].
LocationsOnError_Propagate(e) ==
    [features |-> <<>>, raised |-> TRUE,
     log |-> ErrorLog(e) \o <<"Error getting truck locations">>]

\* except Exception as e: print(...); return []
LocationsOnError(e) ==
    [features |-> <<>>, raised |-> FALSE,
     log |-> ErrorLog(e) \o <<"Error getting truck locations">>]

\* Every outcome of get_truck_locations(cf, df, dt) started at time t on
\* table: the feature list returned (or raised = TRUE when an exception
\* leaves the function), the lines printed, and the clock when it returns.
get_truck_locations(cf, df, dt, table, t) ==
    {[features |-> LocationsOnError(e).features,
      raised |-> LocationsOnError(e).raised,
      log |-> LocationsOnError(e).log,
      clock |-> t] : e \in RepositoryErrors}
    \cup
    UNION {{[features |-> [i \in 1..Len(rows) |-> Feature(rows[i], c[i])],
             raised |-> FALSE,
             log |-> <<>>,
             clock |-> IF Len(rows) = 0 THEN t ELSE c[Len(rows)]]
              : c \in ClockReadings(Len(rows), t)}
              : rows \in LatestRecords(table, LocationsQuery(cf, df, dt))}

-----------------------------------------------------------------------------
(* The HTTP endpoints *)

NoRequest == [endpoint |-> "", car |-> None, date_from |-> None,
              date_to |-> None]
NoBody == [type |-> "", items |-> <<>>]
NoResponse == [status_code |-> 0, detail |-> <<>>, body |-> NoBody]

\* Query parameters tried: absent, empty, and each date.
DateParams == {None, Str(<<>>)} \cup {Str(<<d>>) : d \in Dates}

\* car parameters tried on the endpoints and the websocket.
CarParams ==
    {None, Str(<<>>), Str(<<"A">>), Str(<<"B">>), Str(<<" ", "A">>),
     Str(<<"A", ",", "B">>), Str(<<"A", ",", " ", "B">>), Str(<<",">>)}

\* Every car parameter string of at most MaxLen characters.
CarStrings == UNION {[1..n -> Alphabet] : n \in 0..MaxLen}

\* How FastAPI answers when an exception other than HTTPException leaves
\* the handler.
InternalServerError ==
    [status_code |-> 500, detail |-> <<"Internal Server Error">>,
     body |-> NoBody]

\* get_trucks, given the outcome o of its get_truck_locations call
TrucksResponse(o) ==
    IF o.raised THEN InternalServerError
    ELSE [status_code |-> 200, detail |-> <<>>,
          body |-> [type |-> "FeatureCollection", items |-> o.features]]

\* get_all_vehicles: except Exception as e: print; raise HTTPException(500)
VehiclesOnError(e) ==
    [response |-> [status_code |-> 500,
                   detail |-> <<"Database error">> \o ErrorText(e),
                   body |-> NoBody],
     log |-> ErrorLog(e) \o <<"Error fetching vehicles">>]

\* Every outcome of get_all_vehicles on table
get_all_vehicles(table) ==
    {[response |-> VehiclesOnError(e).response,
      log |-> <<"Fetching all vehicle IDs...">> \o VehiclesOnError(e).log]
        : e \in RepositoryErrors}
    \cup
    {[response |-> [status_code |-> 200, detail |-> <<>>,
                    body |-> [type |-> "vehicles", items |-> vehicles]],
      log |-> <<"Fetching all vehicle IDs...">>]
        : vehicles \in DistinctCars(table)}

\* The mutant: the except clause answers with an empty history.
HistoryOnError_Empty(e) ==
    [response |-> [status_code |-> 200, detail |-> <<>>,
                   body |-> [type |-> "history", items |-> <<>>]],
     log |-> ErrorLog(e) \o <<"Error fetching truck history">>]

\* get_truck_history: except Exception as e: print; raise HTTPException(500)
HistoryOnError(e) ==
    [response |-> [status_code |-> 500,
                   detail |-> <<"Database error">> \o ErrorText(e),
                   body |-> NoBody],
     log |-> ErrorLog(e) \o <<"Error fetching truck history">>]

\* Every outcome of get_truck_history(car_id, df, dt) on table
get_truck_history(car_id, df, dt, table) ==
    {[response |-> HistoryOnError(e).response, log |-> HistoryOnError(e).log]
        : e \in RepositoryErrors}
    \cup
    {[response |-> [status_code |-> 200, detail |-> <<>>,
                    body |-> [type |-> "history", items |-> rows]],
      log |-> <<>>]
        : rows \in HistoryRecords(table, car_id, df, dt)}

\* GET /api/trucks?car=&date_from=&date_to=
GetTrucks(cars) ==
    /\ request = NoRequest
    /\ \E car \in cars, df \in DateParams, dt \in DateParams :
         \E o \in get_truck_locations(car, df, dt, db, now) :
            /\ request' = [endpoint |-> "/api/trucks", car |-> car,
                           date_from |-> df, date_to |-> dt]
            /\ response' = TrucksResponse(o)
            /\ api_log' = o.log
            /\ now' = o.clock
    /\ UNCHANGED <<db, classifyVars, wsVars>>

\* GET /api/vehicles
GetAllVehicles ==
    /\ request = NoRequest
    /\ \E o \in get_all_vehicles(db) :
        /\ request' = [endpoint |-> "/api/vehicles", car |-> None,
                       date_from |-> None, date_to |-> None]
        /\ response' = o.response
        /\ api_log' = o.log
    /\ UNCHANGED <<db, now, classifyVars, wsVars>>

\* GET /api/trucks/{car_id}?date_from=&date_to=
GetTruckHistory ==
    /\ request = NoRequest
    /\ \E car_id \in Cars, df \in DateParams, dt \in DateParams :
         \E o \in get_truck_history(car_id, df, dt, db) :
            /\ request' = [endpoint |-> "/api/trucks/{car_id}",
                           car |-> Str(car_id), date_from |-> df,
                           date_to |-> dt]
            /\ response' = o.response
            /\ api_log' = o.log
    /\ UNCHANGED <<db, now, classifyVars, wsVars>>

\* One second passes.
Tick ==
    /\ now < ClockStart + MaxTick
    /\ now' = now + 1
    /\ UNCHANGED <<db, classifyVars, apiVars, wsVars>>

\* The tracker feed, another process, inserts one of rows into
\* public.tracking_data2.
DbInsert(rows) ==
    /\ Cardinality(db) < MaxRecords
    /\ \E r \in rows \ db : db' = db \cup {r}
    /\ UNCHANGED <<now, classifyVars, apiVars, wsVars>>

-----------------------------------------------------------------------------
(* The /ws endpoint *)

Sockets == {"ws1", "ws2"}

FilterKeys == {"car", "dateFrom", "dateTo"}

\* The value of data["filters"]: a JSON object (is_object) holding the keys
\* in present, or some other JSON value.
NoFilters == [is_object |-> FALSE, present |-> {}, car |-> None,
              dateFrom |-> None, dateTo |-> None]

\* A text frame from the client. kind is "invalid" when the text is not
\* JSON, else the type of the JSON value; truthy is its Python truth value;
\* has_filters is the value of 'filters' in data where that is defined (a
\* key of an object, an element of an array, a substring of a string).
Message(kind, truthy, has_filters, filters) ==
    [kind |-> kind, truthy |-> truthy, has_filters |-> has_filters,
     filters |-> filters]

\* data = None
NoData == Message("None", FALSE, FALSE, NoFilters)

\* {"filters": {...}} carrying the keys in P
Update(P, car, df, dt) ==
    Message("object", TRUE, TRUE,
            [is_object |-> TRUE, present |-> P,
             car |-> IF "car" \in P THEN car ELSE None,
             dateFrom |-> IF "dateFrom" \in P THEN df ELSE None,
             dateTo |-> IF "dateTo" \in P THEN dt ELSE None])

\* Updates tried: every choice of keys, with a car id or null for car.
Updates ==
    {Update(P, car, Str(<<2>>), Str(<<1>>)) :
        P \in SUBSET FilterKeys, car \in {Str(<<"B">>), None}}

\* Messages that are not {"filters": {...}}.
Malformed ==
    {Message("invalid", FALSE, FALSE, NoFilters),       \* not JSON
     Message("null", FALSE, FALSE, NoFilters),          \* null
     Message("number", TRUE, FALSE, NoFilters),         \* 5
     Message("string", TRUE, FALSE, NoFilters),         \* "hello"
     Message("string", TRUE, TRUE, NoFilters),          \* "filters"
     Message("array", TRUE, FALSE, NoFilters),          \* [1]
     Message("array", TRUE, TRUE, NoFilters),           \* ["filters"]
     Message("object", FALSE, FALSE, NoFilters),        \* {}
     Message("object", TRUE, FALSE, NoFilters),         \* {"x": 1}
     Message("object", TRUE, TRUE, NoFilters)}          \* {"filters": 5}

ClientMessages == Updates \cup Malformed

\* filters.get(key, default)
Get(filters, key, default) ==
    IF key \in filters.present
    THEN CASE key = "car" -> filters.car
           [] key = "dateFrom" -> filters.dateFrom
           [] key = "dateTo" -> filters.dateTo
    ELSE default

\* Whether the statements under try raise on message m: json.loads on
\* invalid text, 'filters' in a number, data['filters'] on a string or an
\* array, filters.get on a value that is no object.
Raises(m) ==
    \/ m.kind = "invalid"
    \/ m.kind = "number" /\ m.truthy
    \/ m.kind \in {"string", "array"} /\ m.truthy /\ m.has_filters
    \/ m.kind = "object" /\ m.truthy /\ m.has_filters /\ ~m.filters.is_object

\* The mutant: the update replaces the whole filter, omitted fields
\* becoming None.
ProcessMessage_Replace(m, cf, df, dt) ==
    IF Raises(m)
    THEN [car_filter |-> cf, date_from |-> df, date_to |-> dt,
          data |-> IF m.kind = "invalid" THEN NoData ELSE m,
          log |-> <<"Error processing client message">>]
    ELSE IF m.truthy /\ m.has_filters
    THEN [car_filter |-> Get(m.filters, "car", None),
          date_from |-> Get(m.filters, "dateFrom", None),
          date_to |-> Get(m.filters, "dateTo", None),
          data |-> m,
          log |-> <<"Received filters">>]
    ELSE [car_filter |-> cf, date_from |-> df, date_to |-> dt,
          data |-> m, log |-> <<>>]

\* The mutant: a message the handler cannot process clears the filter.
ProcessMessage_ResetOnError(m, cf, df, dt) ==
    IF Raises(m)
    THEN [car_filter |-> None, date_from |-> None, date_to |-> None,
          data |-> IF m.kind = "invalid" THEN NoData ELSE m,
          log |-> <<"Error processing client message">>]
    ELSE IF m.truthy /\ m.has_filters
    THEN [car_filter |-> Get(m.filters, "car", cf),
          date_from |-> Get(m.filters, "dateFrom", df),
          date_to |-> Get(m.filters, "dateTo", dt),
          data |-> m,
          log |-> <<"Received filters">>]
    ELSE [car_filter |-> cf, date_from |-> df, date_to |-> dt,
          data |-> m, log |-> <<>>]

\* The body of the inner try once receive_json has a text frame m: the
\* locals afterwards and the lines printed.
ProcessMessage(m, cf, df, dt) ==
    IF Raises(m)
    THEN [car_filter |-> cf, date_from |-> df, date_to |-> dt,
          data |-> IF m.kind = "invalid" THEN NoData ELSE m,
          log |-> <<"Error processing client message">>]
    ELSE IF m.truthy /\ m.has_filters
    THEN [car_filter |-> Get(m.filters, "car", cf),
          date_from |-> Get(m.filters, "dateFrom", df),
          date_to |-> Get(m.filters, "dateTo", dt),
          data |-> m,
          log |-> <<"Received filters">>]
    ELSE [car_filter |-> cf, date_from |-> df, date_to |-> dt,
          data |-> m, log |-> <<>>]

States == {"moving", "idle", "stopped"}

\* status_counts = {'moving': 0, 'idle': 0, 'stopped': 0}
InitialCounts == [s \in States |-> 0]

\* The mutant: the loop leaves stopped vehicles out of the tally.
RECURSIVE Tally_SkipStopped(_, _)
Tally_SkipStopped(fs, counts) ==
    IF fs = <<>> THEN counts
    ELSE LET st == Head(fs).properties.status
         IN  Tally_SkipStopped(Tail(fs),
                 IF st = "stopped" THEN counts
                 ELSE [counts EXCEPT ![st] = @ + 1])

\* for feature in features: status_counts[status] += 1
RECURSIVE Tally(_, _)
Tally(fs, counts) ==
    IF fs = <<>> THEN counts
    ELSE Tally(Tail(fs),
               [counts EXCEPT ![Head(fs).properties.status] = @ + 1])

NoMessage == [type |-> "", features |-> <<>>, counts |-> InitialCounts]

\* The argument of websocket.send_json
Snapshot(fs, counts) ==
    [type |-> "FeatureCollection", features |-> fs, counts |-> counts]

\* Query parameters a client connects with.
ConnectCars == {None, Str(<<"A">>)}
ConnectDates == {None, Str(<<1>>)}

\* websocket.accept(): the locals start as the query parameters, car_filter
\* one of cars and the two dates among dates.
Connect(w, cars, dates) ==
    /\ pc[w] = "connecting"
    /\ \E cf \in cars, df \in dates, dt \in dates :
        /\ car_filter' = [car_filter EXCEPT ![w] = cf]
        /\ date_from' = [date_from EXCEPT ![w] = df]
        /\ date_to' = [date_to EXCEPT ![w] = dt]
        /\ expected' = [expected EXCEPT ![w] = <<cf, df, dt>>]
    /\ pc' = [pc EXCEPT ![w] = "receive"]
    /\ connected' = [connected EXCEPT ![w] = TRUE]
    /\ UNCHANGED <<db, now, classifyVars, apiVars, data, features,
                   status_counts, inbox, sent, log, fresh, read_filter,
                   read_table>>

Accept(w) == Connect(w, ConnectCars, ConnectDates)

\* The mutant: a frame is handled the moment it arrives, whatever the loop
\* is doing.
ClientSend_Immediate(w, msgs, cap) ==
    /\ pc[w] \notin {"connecting", "closed"}
    /\ connected[w]
    /\ Len(inbox[w]) < cap
    /\ \E m \in msgs :
        LET r == ProcessMessage(m, car_filter[w], date_from[w], date_to[w])
        IN  /\ inbox' = [inbox EXCEPT ![w] = Append(@, m)]
            /\ car_filter' = [car_filter EXCEPT ![w] = r.car_filter]
            /\ date_from' = [date_from EXCEPT ![w] = r.date_from]
            /\ date_to' = [date_to EXCEPT ![w] = r.date_to]
    /\ UNCHANGED <<db, now, classifyVars, apiVars, pc, data, features,
                   status_counts, sent, connected, log, histVars>>

\* The client sends a text frame, one of msgs; at most cap frames wait in
\* the buffer.
ClientSend(w, msgs, cap) ==
    /\ pc[w] \notin {"connecting", "closed"}
    /\ connected[w]
    /\ Len(inbox[w]) < cap
    /\ \E m \in msgs : inbox' = [inbox EXCEPT ![w] = Append(@, m)]
    /\ UNCHANGED <<db, now, classifyVars, apiVars, pc, car_filter, date_from,
                   date_to, data, features, status_counts, sent, connected,
                   log, histVars>>

\* The client closes the connection.
ClientClose(w) ==
    /\ pc[w] \notin {"connecting", "closed"}
    /\ connected[w]
    /\ connected' = [connected EXCEPT ![w] = FALSE]
    /\ UNCHANGED <<db, now, classifyVars, apiVars, pc, car_filter, date_from,
                   date_to, data, features, status_counts, inbox, sent, log,
                   histVars>>

\* History: what the filter f of a websocket must be once it has taken
\* message m. Only {"filters": {...}} changes it, key by key.
Merged(f, m) ==
    IF m.kind = "object" /\ m.truthy /\ m.has_filters /\ m.filters.is_object
    THEN <<IF "car" \in m.filters.present THEN m.filters.car ELSE f[1],
           IF "dateFrom" \in m.filters.present THEN m.filters.dateFrom
           ELSE f[2],
           IF "dateTo" \in m.filters.present THEN m.filters.dateTo
           ELSE f[3]>>
    ELSE f

\* The mutant: the TimeoutError is not caught in the loop body and ends the
\* loop.
ReceiveTimeout_Break(w) ==
    /\ pc[w] = "receive"
    /\ connected[w]
    /\ inbox[w] = <<>>
    /\ pc' = [pc EXCEPT ![w] = "closed"]
    /\ data' = [data EXCEPT ![w] = NoData]
    /\ UNCHANGED <<db, now, classifyVars, apiVars, car_filter, date_from,
                   date_to, features, status_counts, inbox, sent, connected,
                   log, histVars>>

\* wait_for(receive_json(), 0.01) with no frame buffered: TimeoutError, pass
ReceiveTimeout(w) ==
    /\ pc[w] = "receive"
    /\ connected[w]
    /\ inbox[w] = <<>>
    /\ pc' = [pc EXCEPT ![w] = "query"]
    /\ data' = [data EXCEPT ![w] = NoData]
    /\ UNCHANGED <<db, now, classifyVars, apiVars, car_filter, date_from,
                   date_to, features, status_counts, inbox, sent, connected,
                   log, histVars>>

\* receive_json() after the client has gone: WebSocketDisconnect, caught by
\* except Exception.
ReceiveDisconnect(w) ==
    /\ pc[w] = "receive"
    /\ ~connected[w]
    /\ inbox[w] = <<>>
    /\ pc' = [pc EXCEPT ![w] = "query"]
    /\ data' = [data EXCEPT ![w] = NoData]
    /\ log' = [log EXCEPT ![w] = @ \o <<"Error processing client message">>]
    /\ UNCHANGED <<db, now, classifyVars, apiVars, car_filter, date_from,
                   date_to, features, status_counts, inbox, sent, connected,
                   histVars>>

\* The mutant: the three filter values are shared by all connections.
ReceiveMessage_Global(w) ==
    /\ pc[w] = "receive"
    /\ inbox[w] # <<>>
    /\ LET r == ProcessMessage(Head(inbox[w]), car_filter[w], date_from[w],
                               date_to[w])
       IN  /\ car_filter' = [v \in Sockets |-> r.car_filter]
           /\ date_from' = [v \in Sockets |-> r.date_from]
           /\ date_to' = [v \in Sockets |-> r.date_to]
           /\ data' = [data EXCEPT ![w] = r.data]
           /\ log' = [log EXCEPT ![w] = @ \o r.log]
    /\ inbox' = [inbox EXCEPT ![w] = Tail(@)]
    /\ pc' = [pc EXCEPT ![w] = "query"]
    /\ expected' = [expected EXCEPT ![w] = Merged(@, Head(inbox[w]))]
    /\ UNCHANGED <<db, now, classifyVars, apiVars, features, status_counts,
                   sent, connected, fresh, read_filter, read_table>>

\* The mutant: the read step handles the newest frame and drops the others.
ReceiveMessage_Newest(w) ==
    /\ pc[w] = "receive"
    /\ inbox[w] # <<>>
    /\ LET r == ProcessMessage(inbox[w][Len(inbox[w])], car_filter[w],
                               date_from[w], date_to[w])
       IN  /\ car_filter' = [car_filter EXCEPT ![w] = r.car_filter]
           /\ date_from' = [date_from EXCEPT ![w] = r.date_from]
           /\ date_to' = [date_to EXCEPT ![w] = r.date_to]
           /\ data' = [data EXCEPT ![w] = r.data]
           /\ log' = [log EXCEPT ![w] = @ \o r.log]
    /\ inbox' = [inbox EXCEPT ![w] = <<>>]
    /\ pc' = [pc EXCEPT ![w] = "query"]
    /\ expected' = [expected EXCEPT ![w] = Merged(@, Head(inbox[w]))]
    /\ UNCHANGED <<db, now, classifyVars, apiVars, features, status_counts,
                   sent, connected, fresh, read_filter, read_table>>

\* receive_json() takes the oldest buffered frame; the try body runs on it.
ReceiveMessage(w) ==
    /\ pc[w] = "receive"
    /\ inbox[w] # <<>>
    /\ LET r == ProcessMessage(Head(inbox[w]), car_filter[w], date_from[w],
                               date_to[w])
       IN  /\ car_filter' = [car_filter EXCEPT ![w] = r.car_filter]
           /\ date_from' = [date_from EXCEPT ![w] = r.date_from]
           /\ date_to' = [date_to EXCEPT ![w] = r.date_to]
           /\ data' = [data EXCEPT ![w] = r.data]
           /\ log' = [log EXCEPT ![w] = @ \o r.log]
    /\ inbox' = [inbox EXCEPT ![w] = Tail(@)]
    /\ pc' = [pc EXCEPT ![w] = "query"]
    /\ expected' = [expected EXCEPT ![w] = Merged(@, Head(inbox[w]))]
    /\ UNCHANGED <<db, now, classifyVars, apiVars, features, status_counts,
                   sent, connected, fresh, read_filter, read_table>>

\* The mutant: an exception in one connection's loop ends every loop.
Close_All(w, lines) ==
    /\ pc' = [v \in Sockets |-> "closed"]
    /\ log' = [log EXCEPT ![w] = @ \o lines \o <<"Error in WebSocket loop">>]

\* The mutant: the outer handler prints and the loop goes on.
Close_Continue(w, lines) ==
    /\ pc' = [pc EXCEPT ![w] = "receive"]
    /\ log' = [log EXCEPT ![w] = @ \o lines \o <<"Error in WebSocket loop">>]

\* except Exception (outer): print, break; finally: websocket.close()
Close(w, lines) ==
    /\ pc' = [pc EXCEPT ![w] = "closed"]
    /\ log' = [log EXCEPT ![w] = @ \o lines \o <<"Error in WebSocket loop">>]

\* The mutant: when the repository fails the loop keeps the features of the
\* cycle before.
Query_StaleOnError(w) ==
    /\ pc[w] = "query"
    /\ \E o \in get_truck_locations(car_filter[w], date_from[w], date_to[w],
                                    db, now) :
        /\ now' = o.clock
        /\ IF o.raised
           THEN /\ Close(w, o.log)
                /\ UNCHANGED <<features, status_counts>>
           ELSE /\ features' =
                       [features EXCEPT
                           ![w] = IF o.log = <<>> THEN o.features ELSE @]
                /\ status_counts' =
                       [status_counts EXCEPT
                           ![w] = Tally(features'[w], InitialCounts)]
                /\ log' = [log EXCEPT
                              ![w] = @ \o o.log \o <<"Sending features">>]
                /\ pc' = [pc EXCEPT ![w] = "send"]
    /\ fresh' = [fresh EXCEPT ![w] = TRUE]
    /\ read_filter' = [read_filter EXCEPT
                          ![w] = <<car_filter[w], date_from[w], date_to[w]>>]
    /\ read_table' = [read_table EXCEPT ![w] = db]
    /\ UNCHANGED <<db, classifyVars, apiVars, car_filter, date_from, date_to,
                   data, inbox, sent, connected, expected>>

\* features = await get_truck_locations(...), then the tally and the two
\* prints.
Query(w) ==
    /\ pc[w] = "query"
    /\ \E o \in get_truck_locations(car_filter[w], date_from[w], date_to[w],
                                    db, now) :
        /\ now' = o.clock
        /\ IF o.raised
           THEN /\ Close(w, o.log)
                /\ UNCHANGED <<features, status_counts>>
           ELSE /\ features' = [features EXCEPT ![w] = o.features]
                /\ status_counts' =
                       [status_counts EXCEPT
                           ![w] = Tally(o.features, InitialCounts)]
                /\ log' = [log EXCEPT
                              ![w] = @ \o o.log \o <<"Sending features">>]
                /\ pc' = [pc EXCEPT ![w] = "send"]
    /\ fresh' = [fresh EXCEPT ![w] = TRUE]
    /\ read_filter' = [read_filter EXCEPT
                          ![w] = <<car_filter[w], date_from[w], date_to[w]>>]
    /\ read_table' = [read_table EXCEPT ![w] = db]
    /\ UNCHANGED <<db, classifyVars, apiVars, car_filter, date_from, date_to,
                   data, inbox, sent, connected, expected>>

\* The mutant: send_json to a client that has gone completes.
Send_IgnoresDisconnect(w) ==
    /\ pc[w] = "send"
    /\ sent' = [sent EXCEPT ![w] = Snapshot(features[w], status_counts[w])]
    /\ pc' = [pc EXCEPT ![w] = "sleep"]
    /\ UNCHANGED <<db, now, classifyVars, apiVars, car_filter, date_from,
                   date_to, data, features, status_counts, inbox, connected,
                   log, histVars>>

\* await websocket.send_json(...) completes.
Send(w) ==
    /\ pc[w] = "send"
    /\ connected[w]
    /\ sent' = [sent EXCEPT ![w] = Snapshot(features[w], status_counts[w])]
    /\ pc' = [pc EXCEPT ![w] = "sleep"]
    /\ UNCHANGED <<db, now, classifyVars, apiVars, car_filter, date_from,
                   date_to, data, features, status_counts, inbox, connected,
                   log, histVars>>

\* await websocket.send_json(...) raises: the client has gone, or the
\* socket fails.
SendFails(w) ==
    /\ pc[w] = "send"
    /\ Close(w, <<>>)
    /\ UNCHANGED <<db, now, classifyVars, apiVars, car_filter, date_from,
                   date_to, data, features, status_counts, inbox, sent,
                   connected, histVars>>

\* The mutant: after the wait the loop queries again without reading the
\* client.
Sleep_Requery(w) ==
    /\ pc[w] = "sleep"
    /\ pc' = [pc EXCEPT ![w] = "query"]
    /\ data' = [data EXCEPT ![w] = NoData]
    /\ sent' = [sent EXCEPT ![w] = NoMessage]
    /\ log' = [log EXCEPT ![w] = <<>>]
    /\ fresh' = [fresh EXCEPT ![w] = FALSE]
    /\ UNCHANGED <<db, now, classifyVars, apiVars, car_filter, date_from,
                   date_to, features, status_counts, inbox, connected,
                   read_filter, read_table, expected>>

\* await asyncio.sleep(5) returns and the next iteration starts: data = None.
\* features and status_counts keep the values of the iteration before; sent
\* and log, which record what this iteration sends and prints, start empty.
Sleep(w) ==
    /\ pc[w] = "sleep"
    /\ pc' = [pc EXCEPT ![w] = "receive"]
    /\ data' = [data EXCEPT ![w] = NoData]
    /\ sent' = [sent EXCEPT ![w] = NoMessage]
    /\ log' = [log EXCEPT ![w] = <<>>]
    /\ fresh' = [fresh EXCEPT ![w] = FALSE]
    /\ UNCHANGED <<db, now, classifyVars, apiVars, car_filter, date_from,
                   date_to, features, status_counts, inbox, connected,
                   read_filter, read_table, expected>>

-----------------------------------------------------------------------------
(* Specifications *)

IdleClassify == timestamp = 0 /\ status = ""
IdleApi == request = NoRequest /\ response = NoResponse /\ api_log = <<>>
IdleSockets ==
    /\ pc = [w \in Sockets |-> "connecting"]
    /\ car_filter = [w \in Sockets |-> None]
    /\ date_from = [w \in Sockets |-> None]
    /\ date_to = [w \in Sockets |-> None]
    /\ data = [w \in Sockets |-> NoData]
    /\ features = [w \in Sockets |-> <<>>]
    /\ status_counts = [w \in Sockets |-> InitialCounts]
    /\ inbox = [w \in Sockets |-> <<>>]
    /\ sent = [w \in Sockets |-> NoMessage]
    /\ connected = [w \in Sockets |-> FALSE]
    /\ log = [w \in Sockets |-> <<>>]
    /\ fresh = [w \in Sockets |-> FALSE]
    /\ read_filter = [w \in Sockets |-> <<None, None, None>>]
    /\ read_table = [w \in Sockets |-> {}]
    /\ expected = [w \in Sockets |-> <<None, None, None>>]

\* Tables with one row per car, all of the first date.
LiveTables ==
    {T \in SUBSET {r \in Rows : r.date = 1} :
        \A c \in Cars : Cardinality({r \in T : r.car = c}) = 1}

\* One websocket connection.
Solo == {"ws1"}

Init ==
    /\ db \in LiveTables
    /\ now = ClockStart
    /\ IdleClassify
    /\ IdleApi
    /\ IdleSockets

Next ==
    \/ Tick
    \/ \E w \in Solo : Accept(w)
    \/ \E w \in Solo : ClientSend(w, ClientMessages, 1)
    \/ \E w \in Solo : ClientClose(w)
    \/ \E w \in Solo : ReceiveTimeout(w)
    \/ \E w \in Solo : ReceiveDisconnect(w)
    \/ \E w \in Solo : ReceiveMessage(w)
    \/ \E w \in Solo : Query(w)
    \/ \E w \in Solo : Send(w)
    \/ \E w \in Solo : SendFails(w)
    \/ \E w \in Solo : Sleep(w)

Spec == Init /\ [][Next]_vars

\* The request/response endpoints on any table.
InitApi ==
    /\ db \in Tables
    /\ now = ClockStart
    /\ IdleClassify
    /\ IdleApi
    /\ IdleSockets

NextApi ==
    \/ GetTrucks(CarParams)
    \/ GetAllVehicles
    \/ GetTruckHistory

SpecApi == InitApi /\ [][NextApi]_vars

\* GET /api/trucks with every car string, on the tables with one row per car.
InitCar ==
    /\ db \in LiveTables
    /\ now = ClockStart
    /\ IdleClassify
    /\ IdleApi
    /\ IdleSockets

NextCar == GetTrucks({None} \cup {Str(s) : s \in CarStrings})

SpecCar == InitCar /\ [][NextCar]_vars

\* determine_status on timestamps from an hour and more before the clock to
\* a little after it.
MaxPast == SECONDS_PER_HOUR + MaxFuture

InitClassify ==
    /\ db = {}
    /\ now \in Clock
    /\ timestamp \in (ClockStart - MaxPast)..(ClockStart + MaxFuture)
    /\ status = ""
    /\ IdleApi
    /\ IdleSockets

\* status = determine_status(timestamp)
Classify ==
    /\ status = ""
    /\ status' = determine_status(timestamp, now)
    /\ UNCHANGED <<db, now, timestamp, apiVars, wsVars>>

NextClassify == Classify

SpecClassify == InitClassify /\ [][NextClassify]_vars

\* The table with one row per car, each with the oldest timestamp: every
\* vehicle is stopped whatever the clock reads.
OldestTable ==
    {r \in Rows : r.date = 1 /\ \A t \in Timestamps : r.timestamp <= t}

\* Two websocket connections at once, each with its own client, which sends
\* an update of car or a message the handler cannot process.
PairMessages ==
    {Update({"car"}, Str(<<"B">>), None, None),
     Message("number", TRUE, FALSE, NoFilters)}

InitPair ==
    /\ db = OldestTable
    /\ now = ClockStart
    /\ IdleClassify
    /\ IdleApi
    /\ IdleSockets

NextPair ==
    \/ \E w \in Sockets : Connect(w, ConnectCars, {None})
    \/ \E w \in Sockets : ClientSend(w, PairMessages, 1)
    \/ \E w \in Sockets : ClientClose(w)
    \/ \E w \in Sockets : ReceiveTimeout(w)
    \/ \E w \in Sockets : ReceiveDisconnect(w)
    \/ \E w \in Sockets : ReceiveMessage(w)
    \/ \E w \in Sockets : Query(w)
    \/ \E w \in Sockets : Send(w)
    \/ \E w \in Sockets : SendFails(w)
    \/ \E w \in Sockets : Sleep(w)

SpecPair == InitPair /\ [][NextPair]_vars

\* One connection whose coroutine the event loop keeps running: the 0.01 s
\* wait for a message and the 5 s sleep both end, so a step of the loop that
\* stays possible is taken. The client may send, and may close.
SessionStep(w) ==
    \/ ReceiveTimeout(w)
    \/ ReceiveDisconnect(w)
    \/ ReceiveMessage(w)
    \/ Query(w)
    \/ Send(w)
    \/ SendFails(w)
    \/ Sleep(w)

InitFair ==
    /\ db = OldestTable
    /\ now = ClockStart
    /\ IdleClassify
    /\ IdleApi
    /\ IdleSockets

NextFair ==
    \/ \E w \in Solo : Connect(w, ConnectCars, {None})
    \/ \E w \in Solo : ClientSend(w, PairMessages, 1)
    \/ \E w \in Solo : ClientClose(w)
    \/ \E w \in Solo : SessionStep(w)

SpecFair ==
    /\ InitFair
    /\ [][NextFair]_vars
    /\ \A w \in Solo : WF_vars(SessionStep(w))

\* One connection whose client stays and to which every push succeeds.
StreamStep(w) ==
    \/ ReceiveTimeout(w)
    \/ ReceiveMessage(w)
    \/ Query(w)
    \/ Send(w)
    \/ Sleep(w)

InitStream ==
    /\ db = OldestTable
    /\ now = ClockStart
    /\ IdleClassify
    /\ IdleApi
    /\ IdleSockets

NextStream ==
    \/ \E w \in Solo : Connect(w, ConnectCars, {None})
    \/ \E w \in Solo : ClientSend(w, PairMessages, 1)
    \/ \E w \in Solo : StreamStep(w)

SpecStream ==
    /\ InitStream
    /\ [][NextStream]_vars
    /\ \A w \in Solo : WF_vars(StreamStep(w))

\* One connection whose client sends up to two messages before the loop
\* reads, while the tracker feed adds positions to the table.
QueueMessages ==
    {Update({"car"}, Str(<<"B">>), None, None),
     Update({"dateFrom"}, None, Str(<<2>>), None),
     Message("number", TRUE, FALSE, NoFilters)}

\* Later positions of the cars of OldestTable
NewRows == {r \in Rows : r.date = 1} \ OldestTable

InitQueue ==
    /\ db = OldestTable
    /\ now = ClockStart
    /\ IdleClassify
    /\ IdleApi
    /\ IdleSockets

NextQueue ==
    \/ DbInsert(NewRows)
    \/ \E w \in Solo : Connect(w, ConnectCars, {None})
    \/ \E w \in Solo : ClientSend(w, QueueMessages, 2)
    \/ \E w \in Solo : ClientClose(w)
    \/ \E w \in Solo : SessionStep(w)

SpecQueue == InitQueue /\ [][NextQueue]_vars

\* One connection, run by the event loop, whose client sends up to two
\* updates before the loop reads.
LateMessages ==
    {Update({"car"}, Str(<<"B">>), None, None),
     Update({"dateFrom"}, None, Str(<<2>>), None)}

InitLate ==
    /\ db = OldestTable
    /\ now = ClockStart
    /\ IdleClassify
    /\ IdleApi
    /\ IdleSockets

NextLate ==
    \/ \E w \in Solo : Connect(w, ConnectCars, {None})
    \/ \E w \in Solo : ClientSend(w, LateMessages, 2)
    \/ \E w \in Solo : ClientClose(w)
    \/ \E w \in Solo : SessionStep(w)

SpecLate ==
    /\ InitLate
    /\ [][NextLate]_vars
    /\ \A w \in Solo : WF_vars(SessionStep(w))

-----------------------------------------------------------------------------
(* Properties *)

\* line was printed
InLog(lg, line) == \E i \in 1..Len(lg) : lg[i] = line

\* m is {"filters": {...}} with a JSON object under filters
WellFormed(m) ==
    m.kind = "object" /\ m.truthy /\ m.has_filters /\ m.filters.is_object

\* C1: when the receive step takes a well-formed update, each filter field
\* present in the update gets the update's value and each field the update
\* omits keeps the value it had.
C1_PartialMerge ==
    [][\A w \in Sockets :
          (/\ pc[w] = "receive"
           /\ pc'[w] # "receive"
           /\ inbox[w] # <<>>
           /\ WellFormed(Head(inbox[w])))
          => LET f == Head(inbox[w]).filters
             IN  /\ car_filter'[w] =
                        IF "car" \in f.present THEN f.car ELSE car_filter[w]
                 /\ date_from'[w] =
                        IF "dateFrom" \in f.present THEN f.dateFrom
                        ELSE date_from[w]
                 /\ date_to'[w] =
                        IF "dateTo" \in f.present THEN f.dateTo
                        ELSE date_to[w]]_vars

\* An update carrying only car has been merged into a filter whose two
\* dates were set at connect time, and they are still there.
C1_Witness ==
    \E w \in Sockets :
        /\ pc[w] = "query"
        /\ data[w].filters.is_object
        /\ data[w].filters.present = {"car"}
        /\ car_filter[w] = Str(<<"B">>)
        /\ date_from[w] = Str(<<1>>)
        /\ date_to[w] = Str(<<1>>)

\* C2: when the receive step takes a message that is not a well-formed
\* update (invalid JSON, a JSON value that is no object, an object without
\* filters, filters that is no object), the three filter fields keep their
\* values and the session goes on to the query step of the same cycle.
C2_MalformedIgnored ==
    [][\A w \in Sockets :
          (/\ pc[w] = "receive"
           /\ pc'[w] # "receive"
           /\ inbox[w] # <<>>
           /\ ~WellFormed(Head(inbox[w])))
          => /\ car_filter'[w] = car_filter[w]
             /\ date_from'[w] = date_from[w]
             /\ date_to'[w] = date_to[w]
             /\ pc'[w] = "query"]_vars

\* A cycle that took a message the handler could not process has pushed
\* its snapshot to the connected client.
C2_Witness ==
    \E w \in Sockets :
        /\ pc[w] = "sleep"
        /\ connected[w]
        /\ data[w].kind = "number"
        /\ InLog(log[w], "Error processing client message")
        /\ sent[w].type = "FeatureCollection"

ZeroCounts == [s \in States |-> 0]

\* C3: a live cycle whose repository access failed goes on to send (the
\* failure does not end the session) with no features and all three counts
\* zero, what it pushes is that empty collection, and after the wait the
\* session starts the next cycle.
C3_FailureGivesEmptySnapshot ==
    /\ [](\A w \in Sockets :
            InLog(log[w], "Error getting truck locations")
            => /\ features[w] = <<>>
               /\ status_counts[w] = ZeroCounts
               /\ pc[w] = "sleep" => sent[w] = Snapshot(<<>>, ZeroCounts))
    /\ [][\A w \in Sockets :
            /\ (/\ pc[w] = "query"
                /\ InLog(log'[w], "Error getting truck locations"))
               => pc'[w] = "send"
            /\ (/\ pc[w] = "sleep"
                /\ InLog(log[w], "Error getting truck locations")
                /\ pc'[w] # "sleep")
               => pc'[w] = "receive"]_vars

\* The repository failed in this cycle and the empty collection went out.
C3_Witness ==
    \E w \in Sockets :
        /\ pc[w] = "sleep"
        /\ InLog(log[w], "Error getting truck locations")
        /\ sent[w].type = "FeatureCollection"
        /\ sent[w].features = <<>>
        /\ \E r \in db : TRUE

\* C4: a GET /api/trucks during which the repository failed is answered
\* with a failure status and a message.
C4_TrucksFailureSurfaced ==
    (/\ request.endpoint = "/api/trucks"
     /\ InLog(api_log, "Error getting truck locations"))
    => /\ response.status_code >= 500
       /\ response.detail # <<>>

\* C5: a GET /api/trucks/{car_id} or GET /api/vehicles during which the
\* repository failed, on connect or on query, is answered with status 500
\* and a message, and carries no result.
C5_FailurePropagates ==
    (/\ request.endpoint \in {"/api/vehicles", "/api/trucks/{car_id}"}
     /\ \/ InLog(api_log, "Error connecting to database")
        \/ InLog(api_log, "Error fetching vehicles")
        \/ InLog(api_log, "Error fetching truck history"))
    => /\ response.status_code = 500
       /\ response.detail # <<>>
       /\ response.detail[1] = "Database error"
       /\ response.body = NoBody

\* The history of a car that has rows was asked for and the connection
\* failed.
C5_Witness ==
    /\ request.endpoint = "/api/trucks/{car_id}"
    /\ InLog(api_log, "Error connecting to database")
    /\ response.status_code = 500
    /\ \E r \in db : Str(r.car) = request.car

\* The ids the car condition of the executed query admits ({} = all).
QueryIds(cf) ==
    LET q == LocationsQuery(cf, None, None)
    IN  {q.car_params[i] : i \in 1..Len(q.car_params)}

\* The rows of the table that satisfy the filter of the request.
Satisfying(table, req) ==
    {r \in table :
        /\ QueryIds(req.car) # {} => r.car \in QueryIds(req.car)
        /\ Truthy(req.date_from) => r.date >= req.date_from[1][1]
        /\ Truthy(req.date_to) => r.date <= req.date_to[1][1]}

\* C6: a snapshot assembled from the repository has at most one feature
\* per vehicle id; a vehicle has a feature exactly when one of its rows
\* satisfies the filter; and the feature is built from such a row with the
\* greatest timestamp.
C6_LatestPerVehicle ==
    (/\ request.endpoint = "/api/trucks"
     /\ ~InLog(api_log, "Error getting truck locations"))
    => LET fs == response.body.items
           ok == Satisfying(db, request)
       IN  /\ \A i, j \in 1..Len(fs) :
                  i # j => fs[i].properties.id # fs[j].properties.id
           /\ {fs[i].properties.id : i \in 1..Len(fs)} = {r.car : r \in ok}
           /\ \A i \in 1..Len(fs) :
                  \E r \in ok :
                      /\ r.car = fs[i].properties.id
                      /\ r.timestamp = fs[i].properties.timestamp
                      /\ <<r.date>> = fs[i].properties.date
                      /\ <<r.longitude, r.latitude>> =
                             fs[i].geometry.coordinates
                      /\ \A o \in ok :
                             o.car = r.car => o.timestamp <= r.timestamp

\* A filtered request returned one vehicle, which has an older row that
\* satisfies the filter too.
C6_Witness ==
    /\ request.endpoint = "/api/trucks"
    /\ Truthy(request.car)
    /\ Truthy(request.date_from)
    /\ ~InLog(api_log, "Error getting truck locations")
    /\ Len(response.body.items) = 1
    /\ \E r \in Satisfying(db, request) :
           /\ r.car = response.body.items[1].properties.id
           /\ r.timestamp < response.body.items[1].properties.timestamp
    /\ \E r \in db : r \notin Satisfying(db, request)

\* The number of features of the message with state st
WithState(msg, st) ==
    Cardinality({i \in 1..Len(msg.features) :
                    msg.features[i].properties.status = st})

\* C7: a pushed message has counts for exactly moving, idle and stopped,
\* each the number of its features with that state, so that the three sum
\* to the number of features.
C7_CountsMatchFeatures ==
    \A w \in Sockets :
        sent[w].type = "FeatureCollection"
        => /\ DOMAIN sent[w].counts = {"moving", "idle", "stopped"}
           /\ \A st \in {"moving", "idle", "stopped"} :
                  sent[w].counts[st] = WithState(sent[w], st)
           /\ sent[w].counts["moving"] + sent[w].counts["idle"]
                  + sent[w].counts["stopped"] = Len(sent[w].features)

\* One fresh and one stale vehicle: moving 1, idle 0, stopped 1.
C7_Witness ==
    \E w \in Sockets :
        /\ sent[w].type = "FeatureCollection"
        /\ Len(sent[w].features) = 2
        /\ sent[w].counts = [moving |-> 1, idle |-> 0, stopped |-> 1]

\* C8: the classifier returns stopped when now - t > 3600, idle when
\* 1800 < now - t <= 3600, and moving otherwise (future timestamps too).
C8_ClassifierRule ==
    status # ""
    => status = IF now - timestamp > 3600 THEN "stopped"
                ELSE IF now - timestamp > 1800 THEN "idle"
                ELSE "moving"

\* An age of exactly one hour was classified, as idle.
C8_Witness ==
    /\ now - timestamp = 3600
    /\ status = "idle"

\* C9 as stated: a position aged exactly 1800 seconds is idle.
C9_HalfHourIsIdle ==
    (status # "" /\ now - timestamp = 1800) => status = "idle"

\* C9, amended: a position aged exactly 1800 seconds is moving; idle
\* starts at 1801 seconds.
C9_HalfHourIsMoving ==
    /\ (status # "" /\ now - timestamp = 1800) => status = "moving"
    /\ (status # "" /\ now - timestamp = 1801) => status = "idle"

\* An age of exactly half an hour was classified, as moving.
C9_Witness ==
    /\ now - timestamp = 1800
    /\ status = "moving"

\* The ids of a car parameter string: split on commas, trim, drop empties.
ListedIds(cf) ==
    IF cf = None THEN {}
    ELSE LET ids == StripNonEmpty(Split(cf[1], ","))
         IN  {ids[i] : i \in 1..Len(ids)}

\* C10: the snapshot for a car parameter that lists at least one id holds
\* exactly the vehicles among those ids that have a row satisfying the
\* dates.
C10_CarListRestricts ==
    (/\ request.endpoint = "/api/trucks"
     /\ ~InLog(api_log, "Error getting truck locations")
     /\ ListedIds(request.car) # {})
    => {response.body.items[i].properties.id :
            i \in 1..Len(response.body.items)}
       = {r.car : r \in {x \in db :
              /\ x.car \in ListedIds(request.car)
              /\ Truthy(request.date_from)
                    => x.date >= request.date_from[1][1]
              /\ Truthy(request.date_to)
                    => x.date <= request.date_to[1][1]}}

\* The locals and the traffic of websocket w
Session(w) ==
    <<pc[w], car_filter[w], date_from[w], date_to[w], data[w], features[w],
      status_counts[w], inbox[w], sent[w], log[w]>>

\* C11: a step in which the outer handler reports an exception (the push
\* raised) ends in Closed without a snapshot going out, the only ways out of
\* the send step are a completed push and Closed, and a closed session does
\* nothing more: it reads no message, changes no filter, queries nothing and
\* pushes nothing.
C11_PushFailureCloses ==
    [][\A w \in Sockets :
          /\ (/\ ~InLog(log[w], "Error in WebSocket loop")
              /\ InLog(log'[w], "Error in WebSocket loop"))
             => pc'[w] = "closed" /\ sent'[w] = sent[w]
          /\ (pc[w] = "send" /\ pc'[w] # "send")
             => \/ pc'[w] = "sleep" /\ sent'[w].type = "FeatureCollection"
                \/ pc'[w] = "closed" /\ sent'[w] = sent[w]
          /\ pc[w] = "closed" => Session(w)' = Session(w)]_vars

\* The push to a client that still holds the connection raised; the session
\* is closed with a message of the client left unread.
C11_Witness ==
    \E w \in Sockets :
        /\ pc[w] = "closed"
        /\ connected[w]
        /\ InLog(log[w], "Error in WebSocket loop")
        /\ inbox[w] # <<>>
        /\ sent[w] = NoMessage

\* The order of the steps of a session
CycleOrder ==
    {<<"connecting", "receive">>, <<"receive", "query">>,
     <<"query", "send">>, <<"send", "sleep">>, <<"send", "closed">>,
     <<"sleep", "receive">>}

\* C15: the steps of a session follow one order: read, assemble, push, wait,
\* read again. The filter changes in the read step only, the features and
\* the counts in the assemble step only, and a snapshot goes out in the push
\* step only, so a push is over before the next cycle reads.
C15_StepsInOrder ==
    [][\A w \in Sockets :
          /\ pc'[w] # pc[w] => <<pc[w], pc'[w]>> \in CycleOrder
          /\ <<car_filter'[w], date_from'[w], date_to'[w]>>
                 # <<car_filter[w], date_from[w], date_to[w]>>
             => pc[w] \in {"connecting", "receive"} /\ pc'[w] # pc[w]
          /\ <<features'[w], status_counts'[w]>>
                 # <<features[w], status_counts[w]>>
             => pc[w] = "query" /\ pc'[w] = "send"
          /\ (sent'[w] # sent[w] /\ sent'[w] # NoMessage)
             => pc[w] = "send" /\ pc'[w] = "sleep"]_vars

\* A second cycle has read an update after the first cycle queried.
C15_Witness ==
    \E w \in Sockets :
        /\ pc[w] = "query"
        /\ read_table[w] # {}
        /\ WellFormed(data[w])
        /\ features[w] # <<>>

\* The three filter values of websocket w
Filter(w) == <<car_filter[w], date_from[w], date_to[w]>>

\* C12: a step that closes one session changes nothing of any other
\* session, neither its state, its filter, its buffered messages nor what
\* it has pushed, and while some session is closed every other session can
\* take the step it is at: read, push to its connected client, wait.
C12_FailureIsLocal ==
    /\ [][\A w, v \in Sockets :
            (w # v /\ pc[w] # "closed" /\ pc'[w] = "closed")
            => /\ Session(v)' = Session(v)
               /\ connected'[v] = connected[v]]_vars
    /\ [](\A w, v \in Sockets :
            (w # v /\ pc[w] = "closed")
            => /\ pc[v] = "receive"
                  => ENABLED (\/ ReceiveTimeout(v)
                              \/ ReceiveDisconnect(v)
                              \/ ReceiveMessage(v))
               /\ (pc[v] = "send" /\ connected[v]) => ENABLED Send(v)
               /\ pc[v] = "sleep" => ENABLED Sleep(v))

\* One session is closed on a failed push; the other, whose client set
\* car to B, has just pushed a snapshot and has a message waiting.
C12_Witness ==
    \E w, v \in Sockets :
        /\ w # v
        /\ pc[w] = "closed"
        /\ InLog(log[w], "Error in WebSocket loop")
        /\ pc[v] = "sleep"
        /\ connected[v]
        /\ car_filter[v] = Str(<<"B">>)
        /\ sent[v].type = "FeatureCollection"
        /\ inbox[v] # <<>>

\* C17: the filter of a session is the filter it connected with merged
\* with the updates that session has read, whatever the other sessions
\* read; a read step of one session leaves the filter of every other
\* session unchanged; and the query of a session is made with that
\* session's filter.
C17_FiltersAreSeparate ==
    /\ [](\A w \in Sockets :
            /\ pc[w] # "connecting" => Filter(w) = expected[w]
            /\ pc[w] \in {"send", "sleep"} => read_filter[w] = expected[w])
    /\ [][\A w, v \in Sockets :
            (w # v /\ pc[w] = "receive" /\ pc'[w] = "query")
            => Filter(v)' = Filter(v)]_vars

\* Two sessions have queried under different filters: one with the car its
\* client sent, the other with the car it connected with.
C17_Witness ==
    \E w, v \in Sockets :
        /\ pc[w] = "send"
        /\ pc[v] = "send"
        /\ WellFormed(data[w])
        /\ read_filter[w] = <<Str(<<"B">>), None, None>>
        /\ read_filter[v] = <<Str(<<"A">>), None, None>>
        /\ features[w] # features[v]

\* C13: once the client has closed the connection no push completes any
\* more, so at most the cycle that follows the current wait starts, and the
\* session reaches Closed instead of streaming for ever.
C13_ClientCloseEndsSession ==
    /\ [][\A w \in Sockets :
            (pc[w] # "connecting" /\ ~connected[w])
            => /\ pc'[w] = "sleep" => pc[w] = "sleep"
               /\ sent'[w] \in {sent[w], NoMessage}]_vars
    /\ \A w \in Solo :
           (pc[w] # "connecting" /\ ~connected[w]) ~> pc[w] = "closed"

\* The client closed during the wait: the next cycle started, its read
\* step met the disconnect, and its push closed the session.
C13_Witness ==
    \E w \in Sockets :
        /\ pc[w] = "closed"
        /\ ~connected[w]
        /\ InLog(log[w], "Error processing client message")
        /\ InLog(log[w], "Sending features")
        /\ InLog(log[w], "Error in WebSocket loop")
        /\ sent[w] = NoMessage

\* C14: while the client stays connected and no push fails the session
\* never closes, every cycle that starts pushes a snapshot, and after every
\* wait the next cycle starts; a cycle whose repository access failed
\* pushes too.
C14_StreamsForEver ==
    \A w \in Solo :
        /\ [](pc[w] # "closed")
        /\ pc[w] = "receive"
               ~> (pc[w] = "sleep" /\ sent[w].type = "FeatureCollection")
        /\ pc[w] = "sleep" ~> pc[w] = "receive"
        /\ (pc[w] = "send"
               /\ InLog(log[w], "Error getting truck locations"))
               ~> (pc[w] = "sleep" /\ sent[w] = Snapshot(<<>>, ZeroCounts))

\* A cycle that read a message it could not process and whose repository
\* access failed has pushed the empty collection.
C14_Witness ==
    \E w \in Sockets :
        /\ pc[w] = "sleep"
        /\ connected[w]
        /\ data[w].kind = "number"
        /\ InLog(log[w], "Error processing client message")
        /\ InLog(log[w], "Error getting truck locations")
        /\ sent[w] = Snapshot(<<>>, ZeroCounts)
        /\ read_filter[w] = <<Str(<<"B">>), None, None>>

\* The feature lists get_truck_locations can return for the arguments and
\* the table of the last call websocket w made
ReadResults(w) ==
    UNION {{o.features :
               o \in get_truck_locations(read_filter[w][1], read_filter[w][2],
                                         read_filter[w][3], read_table[w], t)}
              : t \in Clock}

\* C16: a snapshot goes out only in a cycle that has queried the repository
\* since its start, the query was made with the filter as the read step of
\* that cycle left it, and the snapshot carries a feature list that query
\* can return on the table it read, with the counts of that list; features
\* of an earlier cycle never go out again.
C16_SnapshotIsFresh ==
    /\ [](\A w \in Sockets :
            (pc[w] = "sleep" /\ sent[w].type = "FeatureCollection")
            => /\ fresh[w]
               /\ read_filter[w] = Filter(w)
               /\ sent[w].features \in ReadResults(w)
               /\ sent[w].counts = Tally(sent[w].features, InitialCounts))
    /\ [][\A w \in Sockets :
            /\ (pc[w] = "query" /\ pc'[w] = "send")
               => /\ read_table'[w] = db
                  /\ read_filter'[w] = Filter(w)
            /\ (pc[w] = "sleep" /\ pc'[w] = "receive") => ~fresh'[w]]_vars

\* After the tracker feed added a position, a cycle that read an update of
\* car queried for that car and pushed what it found.
C16_Witness ==
    \E w \in Sockets :
        /\ pc[w] = "sleep"
        /\ sent[w].type = "FeatureCollection"
        /\ WellFormed(data[w])
        /\ read_filter[w] = <<Str(<<"B">>), None, None>>
        /\ read_table[w] # OldestTable
        /\ Len(sent[w].features) = 1

\* C18: a message that arrives during the repository call, the push or the
\* wait only joins the buffer: the filter, the features and what has been
\* pushed stay as they are, and the filter holds the updates read so far
\* and no pending one. A buffered message leaves the buffer only in a read
\* step, and while the session is not closed every buffered message moves
\* to the head of the buffer and is then read.
C18_LateUpdateWaits ==
    /\ [][\A w \in Sockets :
            /\ (/\ pc[w] \in {"query", "send", "sleep"}
                /\ Len(inbox'[w]) > Len(inbox[w]))
               => /\ Filter(w)' = Filter(w)
                  /\ features'[w] = features[w]
                  /\ sent'[w] = sent[w]
                  /\ pc'[w] = pc[w]
            /\ Len(inbox'[w]) < Len(inbox[w]) => pc[w] = "receive"]_vars
    /\ [](\A w \in Sockets : pc[w] # "connecting" => Filter(w) = expected[w])
    /\ \A w \in Solo, m \in LateMessages :
           /\ (Len(inbox[w]) > 1 /\ inbox[w][2] = m)
                  ~> \/ pc[w] = "closed"
                     \/ inbox[w] # <<>> /\ Head(inbox[w]) = m
           /\ (inbox[w] # <<>> /\ Head(inbox[w]) = m)
                  ~> \/ pc[w] = "closed"
                     \/ pc[w] = "query" /\ data[w] = m

\* The read step of this cycle found no message; an update of dateFrom
\* arrived afterwards and waits while the snapshot, made without it, is out.
C18_Witness ==
    \E w \in Sockets :
        /\ pc[w] = "sleep"
        /\ sent[w].type = "FeatureCollection"
        /\ data[w] = NoData
        /\ inbox[w] = <<Update({"dateFrom"}, None, Str(<<2>>), None)>>
        /\ date_from[w] = None
        /\ read_filter[w][2] = None
        /\ sent[w].features # <<>>

\* C19: a read step that finds messages takes the oldest one only: the
\* buffer loses its head and nothing else, and the filter becomes the prior
\* filter merged with that message alone. No step takes more than one
\* message, so the second of two pending updates is applied a cycle after
\* the first.
C19_OneMessagePerCycle ==
    [][\A w \in Sockets :
          /\ (pc[w] = "receive" /\ pc'[w] = "query" /\ inbox[w] # <<>>)
             => /\ inbox'[w] = Tail(inbox[w])
                /\ Filter(w)' = Merged(Filter(w), Head(inbox[w]))
          /\ (pc[w] = "receive" /\ pc'[w] = "query" /\ inbox[w] = <<>>)
             => /\ inbox'[w] = <<>>
                /\ Filter(w)' = Filter(w)
          /\ Len(inbox'[w]) >= Len(inbox[w]) - 1]_vars

\* Two updates were pending: the read step merged the update of car, and
\* the update of dateFrom still waits, not yet in the filter.
C19_Witness ==
    \E w \in Sockets :
        /\ pc[w] = "query"
        /\ data[w] = Update({"car"}, Str(<<"B">>), None, None)
        /\ car_filter[w] = Str(<<"B">>)
        /\ inbox[w] = <<Update({"dateFrom"}, None, Str(<<2>>), None)>>
        /\ date_from[w] = None

====
